---- MODULE Spec2Model ----
(***************************************************************************)
(* VagrantCommandLineCodeExecutor                                          *)
(* (src/autogen/coding/vagrant_commandline_code_executor.py).              *)
(*                                                                         *)
(* Text is modelled as a sequence of string tokens.  A language name and   *)
(* the output of a remote command are sequences of one-character tokens,   *)
(* so that str.lower() and the slice output[-200:] are computed character  *)
(* by character.  A code text is a sequence of lines, each a sequence of   *)
(* tokens.  str concatenation (f-strings, "".join) is \o.                   *)
(***************************************************************************)
EXTENDS Integers, Sequences, FiniteSets, TLC

VARIABLES
    code_blocks,          \* the batch the caller passes to execute_code_blocks
    proc,                 \* the Python process: "init", "live", "exited"
    constructed,          \* an executor object was returned by __init__
    args,                 \* the arguments __init__ was called with
    timeout_f,            \* self._timeout
    execution_policies,   \* self.execution_policies
    work_dir_exists,      \* work_dir.mkdir(exist_ok=True) has run
    v_status,             \* the Vagrant machine: "absent", "running", "not_running", "destroyed"
    up_calls,             \* number of self._v.up() calls issued
    destroy_calls,        \* number of self._v.destroy() calls issued
    atexit_hooks,         \* the callbacks registered with atexit
    ret                   \* outcome of the latest call: what it returned or raised, and its side effects

vars == <<code_blocks, proc, constructed, args, timeout_f, execution_policies,
          work_dir_exists, v_status, up_calls, destroy_calls, atexit_hooks, ret>>

----------------------------------------------------------------------------
(* Bounds of the model *)

\* longest batch handed to execute_code_blocks
MaxBlocks == 2

\* most destroy() calls followed (stop() and __exit__ may be called any number of times)
MaxStops == 2

----------------------------------------------------------------------------
(* Python built-ins *)

UpperCase == <<"A","B","C","D","E","F","G","H","I","J","K","L","M",
               "N","O","P","Q","R","S","T","U","V","W","X","Y","Z">>

LowerCase == <<"a","b","c","d","e","f","g","h","i","j","k","l","m",
               "n","o","p","q","r","s","t","u","v","w","x","y","z">>

\* the lower-case letter of each upper-case letter
LowerMap ==
    [c \in {UpperCase[i] : i \in DOMAIN UpperCase} |->
        LowerCase[CHOOSE i \in DOMAIN UpperCase : UpperCase[i] = c]]

\* one character of str.lower()
LowerChar(c) == IF c \in DOMAIN LowerMap THEN LowerMap[c] ELSE c

\* str.lower()
Lower(s) == [i \in DOMAIN s |-> LowerChar(s[i])]

\* dict.get(k, default)
DictGet(d, k, default) == IF k \in DOMAIN d THEN d[k] ELSE default

\* dict.copy() followed by dict.update(e): the entries of e win
DictUpdate(d, e) ==
    [k \in (DOMAIN d) \cup (DOMAIN e) |-> IF k \in DOMAIN e THEN e[k] ELSE d[k]]

\* the empty dict
EmptyDict == [k \in {} |-> FALSE]

\* (mutant) s[:n], the first n characters instead of the last
Tail_n_Head(s, n) == IF Len(s) <= n THEN s ELSE SubSeq(s, 1, n)

\* s[-n:] of a string s, n > 0
Tail_n(s, n) == IF Len(s) <= n THEN s ELSE SubSeq(s, Len(s) - n + 1, Len(s))

RECURSIVE Join(_)
\* "".join(list)
Join(list) == IF list = <<>> THEN <<>> ELSE Head(list) \o Join(Tail(list))

RECURSIVE JoinLines(_)
\* "\n".join(lines)
JoinLines(lines) ==
    IF lines = <<>> THEN <<>>
    ELSE IF Len(lines) = 1 THEN lines[1]
    ELSE lines[1] \o <<"\n">> \o JoinLines(Tail(lines))

----------------------------------------------------------------------------
(* Language names *)

bash       == <<"b","a","s","h">>
shell      == <<"s","h","e","l","l">>
sh         == <<"s","h">>
pwsh       == <<"p","w","s","h">>
powershell == <<"p","o","w","e","r","s","h","e","l","l">>
ps1        == <<"p","s","1">>
python     == <<"p","y","t","h","o","n">>
javascript == <<"j","a","v","a","s","c","r","i","p","t">>
html       == <<"h","t","m","l">>
css        == <<"c","s","s">>
py         == <<"p","y">>
js         == <<"j","s">>
ruby       == <<"r","u","b","y">>

\* VagrantCommandLineCodeExecutor.DEFAULT_EXECUTION_POLICY
DEFAULT_EXECUTION_POLICY ==
    [l \in {bash, shell, sh, pwsh, powershell, ps1, python, javascript, html, css} |->
        l \notin {powershell, html, css}]

\* VagrantCommandLineCodeExecutor.LANGUAGE_ALIASES
LANGUAGE_ALIASES == [l \in {py, js} |-> IF l = py THEN python ELSE javascript]

\* (mutant) the alias is looked up before the name is lower-cased
CanonicalLang_AliasFirst(language) == Lower(DictGet(LANGUAGE_ALIASES, language, language))

\* lang = self.LANGUAGE_ALIASES.get(code_block.language.lower(), code_block.language.lower())
CanonicalLang(language) == DictGet(LANGUAGE_ALIASES, Lower(language), Lower(language))

----------------------------------------------------------------------------
(* Helpers of autogen.coding.utils and autogen.code_utils, imported by the executor *)

\* the work_dir the sample constructs the executor with
WORK_DIR == <<"coding">>

\* the lines of a code text on which silence_pip acts: "pip install" for the shells,
\* "! pip install" for python
PipPrefix(lang) ==
    IF lang = python THEN {"! pip install", "!pip install"}
    ELSE IF lang \in {bash, shell, sh, pwsh, powershell, ps1} THEN {"pip install"}
    ELSE {}

\* silence_pip(code, lang): add -qqq to the pip install lines that lack it
silence_pip(code, lang) ==
    [i \in DOMAIN code |->
        IF /\ code[i] # <<>>
           /\ code[i][1] \in PipPrefix(lang)
           /\ \A j \in DOMAIN code[i] : code[i][j] # " -qqq"
        THEN <<code[i][1], " -qqq">> \o Tail(code[i])
        ELSE code[i]]

RECURSIVE ResolvePath(_, _)
\* Path.resolve() of work_dir / components, kept relative to work_dir: the stack of
\* directories below work_dir, or "outside" once a component leaves it
ResolvePath(components, stack) ==
    IF components = <<>> THEN [outside |-> FALSE, relative |-> stack]
    ELSE IF Head(components) = "/" THEN [outside |-> TRUE, relative |-> <<>>]
    ELSE IF Head(components) = ".." THEN
        IF stack = <<>> THEN [outside |-> TRUE, relative |-> <<>>]
        ELSE ResolvePath(Tail(components), SubSeq(stack, 1, Len(stack) - 1))
    ELSE ResolvePath(Tail(components), Append(stack, Head(components)))

RECURSIVE JoinPath(_)
\* str(path) of a relative path
JoinPath(components) ==
    IF components = <<>> THEN <<>>
    ELSE IF Len(components) = 1 THEN components
    ELSE <<components[1], "/">> \o JoinPath(Tail(components))

\* _get_file_name_from_content(code, work_dir): the name given by a "# filename:" first
\* line (ValueError when it leaves work_dir), None (<<>>) without such a line
get_file_name_from_content(code) ==
    IF code # <<>> /\ code[1] # <<>> /\ code[1][1] = "# filename:"
    THEN LET r == ResolvePath(Tail(code[1]), <<>>)
         IN  [raised |-> r.outside, filename |-> JoinPath(r.relative)]
    ELSE [raised |-> FALSE, filename |-> <<>>]

\* TIMEOUT_MSG of autogen.code_utils: imported by the executor, used only in the
\* lines that are commented out
TIMEOUT_MSG == <<"Timeout">>

\* md5(code.encode()).hexdigest(): a digest, one per code text
md5_hexdigest(text) == <<"md5(">> \o text \o <<")">>

\* _cmd(lang): the interpreter of a language
cmd(lang) ==
    IF lang = shell THEN sh
    ELSE IF lang = javascript THEN <<"n","o","d","e">>
    ELSE IF lang \in {ps1, pwsh, powershell} THEN pwsh
    ELSE lang

----------------------------------------------------------------------------
(* The remote transport (fabric put / run under warn_only=True) *)

\* output[-200:] keeps this many characters
OutputTail == 200

Digits == <<"0","1","2","3","4","5","6","7","8","9">>

\* a remote output of n characters
RemoteText(n) == [i \in 1..n |-> Digits[(i % 10) + 1]]

\* what the machine answers to the upload and the command of one block:
\*   connect      the ssh coordinates are obtained and the connection opens
\*   put_ok       the upload succeeded (a failed put only warns under warn_only)
\*   return_code  exit code of the remote command (124: killed by timeout(1))
\*   stdout       what the remote command printed
RemoteOk       == [connect |-> TRUE,  put_ok |-> TRUE,  return_code |-> 0,   stdout |-> <<"h","i">>]
RemoteError    == [connect |-> TRUE,  put_ok |-> TRUE,  return_code |-> 1,   stdout |-> <<"E","r","r">>]
RemoteTimeout  == [connect |-> TRUE,  put_ok |-> TRUE,  return_code |-> 124, stdout |-> RemoteText(OutputTail + 1)]
RemotePutFail  == [connect |-> TRUE,  put_ok |-> FALSE, return_code |-> 2,   stdout |-> <<"?">>]
RemoteNoConn   == [connect |-> FALSE, put_ok |-> FALSE, return_code |-> 255, stdout |-> <<>>]

\* the answers possible for a machine in the given state: a machine that is not
\* running has no ssh coordinates
RemoteOutcomes(status) ==
    IF status = "running"
    THEN {RemoteOk, RemoteError, RemoteTimeout, RemotePutFail}
    ELSE {RemoteNoConn}

----------------------------------------------------------------------------
(* execute_code_blocks: the body of the loop over code_blocks *)

\* the locals of execute_code_blocks before the loop, with the effects it has on the
\* work_dir (written) and on the machine (calls); ctl is where control goes after a block
LoopStart ==
    [outputs |-> <<>>, files |-> <<>>, last_exit_code |-> 0,
     written |-> <<>>, calls |-> <<>>, ctl |-> "next"]

\* (mutant) the language is looked up in the merged table, where an override entry
\* makes an unknown language supported
Unsupported_Merged(lang) == lang \notin DOMAIN execution_policies

\* lang not in self.DEFAULT_EXECUTION_POLICY
Unsupported(lang) == lang \notin DOMAIN DEFAULT_EXECUTION_POLICY

\* (mutant) the unsupported-language branch without its break
UnsupportedBranch_NoBreak(acc, lang) ==
    [acc EXCEPT !.outputs = Append(@, <<"Unsupported language ">> \o lang \o <<"\n">>),
                !.last_exit_code = 1]

\* the branch taken for an unsupported language: message, exit code 1, break
UnsupportedBranch(acc, lang) ==
    [acc EXCEPT !.outputs = Append(@, <<"Unsupported language ">> \o lang \o <<"\n">>),
                !.last_exit_code = 1,
                !.ctl = "break"]

\* execute_code = self.execution_policies.get(lang, False)
ExecuteCode(policies, lang) == DictGet(policies, lang, FALSE)

\* (mutant) the rejected filename is reported but the loop goes on
BadFilenameBranch_NoBreak(acc) ==
    [acc EXCEPT !.outputs = Append(@, <<"Filename is not in the workspace">>),
                !.last_exit_code = 1]

\* except ValueError: message, exit code 1, break
BadFilenameBranch(acc) ==
    [acc EXCEPT !.outputs = Append(@, <<"Filename is not in the workspace">>),
                !.last_exit_code = 1,
                !.ctl = "break"]

\* filename = f"tmp_code_{md5(code.encode()).hexdigest()}.{lang}" when the code names none
FileName(named, code, lang) ==
    IF named = <<>>
    THEN <<"tmp_code_">> \o md5_hexdigest(JoinLines(code)) \o <<".">> \o lang
    ELSE named

\* code_path = self._work_dir / filename
CodePath(filename) == WORK_DIR \o <<"/">> \o filename

\* the number of side effects (file writes and transport calls) made so far
Effects(acc) == Len(acc.written) + Len(acc.calls)

\* (mutant) every block gets a file of its own: the block number is put in the name
WriteFile_PerBlock(acc, i, code_path, code) ==
    [acc EXCEPT !.written = Append(@, [block |-> i, seq |-> Effects(acc) + 1,
                                       path |-> code_path \o <<".", ToString(i)>>,
                                       content |-> JoinLines(code)]),
                !.files = Append(@, code_path \o <<".", ToString(i)>>)]

\* the file is written (seq: its place among the side effects of the call) and
\* recorded in files
WriteFile(acc, i, code_path, code) ==
    [acc EXCEPT !.written = Append(@, [block |-> i, seq |-> Effects(acc) + 1,
                                       path |-> code_path,
                                       content |-> JoinLines(code)]),
                !.files = Append(@, code_path)]

\* (mutant) the save-only branch ends the loop instead of continuing
SavedBranch_Break(acc, code_path) ==
    [acc EXCEPT !.outputs = Append(@, <<"Code saved to ">> \o code_path \o <<"\n">>),
                !.ctl = "break"]

\* if not execute_code: "Code saved to", continue
SavedBranch(acc, code_path) ==
    [acc EXCEPT !.outputs = Append(@, <<"Code saved to ">> \o code_path \o <<"\n">>)]

\* command = ["timeout", str(self._timeout), _cmd(lang), filename], joined by blanks
Command(timeout, lang, filename) ==
    <<"timeout", " ", ToString(timeout), " ">> \o cmd(lang) \o <<" ">> \o filename

\* (mutant) the command is run before the file is uploaded
RunBranch_RunBeforePut(acc, i, code_path, command, remote) ==
    IF ~remote.connect
    THEN [acc EXCEPT !.ctl = "raise"]
    ELSE [acc EXCEPT
            !.calls = @ \o << [kind |-> "run", block |-> i, seq |-> Effects(acc) + 1,
                               arg |-> command,
                               return_code |-> remote.return_code,
                               stdout |-> remote.stdout],
                              [kind |-> "put", block |-> i, seq |-> Effects(acc) + 2,
                               arg |-> code_path,
                               return_code |-> IF remote.put_ok THEN 0 ELSE 1,
                               stdout |-> <<>>] >>,
            !.outputs = Append(@, Tail_n(remote.stdout, OutputTail))]

\* with settings(...): put(code_path, '/home/vagrant'); output = run(command);
\* outputs.append(output[-200:]).  Obtaining the ssh coordinates of a machine that has
\* none raises; the results of put and run are otherwise not looked at
RunBranch(acc, i, code_path, command, remote) ==
    IF ~remote.connect
    THEN [acc EXCEPT !.ctl = "raise"]
    ELSE [acc EXCEPT
            !.calls = @ \o << [kind |-> "put", block |-> i, seq |-> Effects(acc) + 1,
                               arg |-> code_path,
                               return_code |-> IF remote.put_ok THEN 0 ELSE 1,
                               stdout |-> <<>>],
                              [kind |-> "run", block |-> i, seq |-> Effects(acc) + 2,
                               arg |-> command,
                               return_code |-> remote.return_code,
                               stdout |-> remote.stdout] >>,
            !.outputs = Append(@, Tail_n(remote.stdout, OutputTail))]

\* one iteration of: for code_block in code_blocks
LoopBody(acc, i, code_block, policies, timeout, remote) ==
    LET lang == CanonicalLang(code_block.language) IN
    IF Unsupported(lang) THEN UnsupportedBranch(acc, lang)
    ELSE
      LET execute_code == ExecuteCode(policies, lang)
          code         == silence_pip(code_block.code, lang)
          named        == get_file_name_from_content(code)
      IN
      IF named.raised THEN BadFilenameBranch(acc)
      ELSE
        LET filename  == FileName(named.filename, code, lang)
            code_path == CodePath(filename)
            saved     == WriteFile(acc, i, code_path, code)
        IN
        IF ~execute_code THEN SavedBranch(saved, code_path)
        ELSE RunBranch(saved, i, code_path, Command(timeout, lang, filename), remote)

RECURSIVE ForLoop(_, _, _, _, _, _)
\* the loop from block i on; it ends at a break, at an exception or after the last block
ForLoop(acc, i, blocks, policies, timeout, remotes) ==
    IF i > Len(blocks) \/ acc.ctl # "next" THEN acc
    ELSE ForLoop(LoopBody(acc, i, blocks[i], policies, timeout, remotes[i]),
                 i + 1, blocks, policies, timeout, remotes)

----------------------------------------------------------------------------
(* Inputs *)

\* the code blocks the batches are made of
BlockHtml   == [language |-> html,   code |-> << <<"<p>x</p>">> >>]
BlockRuby   == [language |-> ruby,   code |-> << <<"puts 1">> >>]
BlockPY     == [language |-> <<"P","Y">>,
                code |-> << <<"! pip install", " x">>, <<"print(1)">> >>]
BlockNamed  == [language |-> python,
                code |-> << <<"# filename:", "a.py">>, <<"print(2)">> >>]
BlockEscape == [language |-> html,
                code |-> << <<"# filename:", "..", "evil.html">>, <<"<p>y</p>">> >>]

Blocks == {BlockHtml, BlockRuby, BlockPY, BlockNamed, BlockEscape}

\* the batches: every list of at most MaxBlocks blocks, the empty one included
Batches == UNION {[1..n -> Blocks] : n \in 0..MaxBlocks}

\* the values of the timeout argument: on both sides of the check timeout < 1
Timeouts == {0, 1}

\* the values of the execution_policies argument (None has the effect of the empty dict)
PolicyArgs ==
    { EmptyDict,
      [l \in {python, html, ruby} |-> l # python] }

\* what self._v.up() does: it returns with the machine running, returns with the
\* machine not (yet) running, or raises
UpResults == {"running", "not_running", "raise"}

----------------------------------------------------------------------------
(* State *)

\* the record kept of a call: its name, the exception it raised ("" when it returned),
\* the CommandLineCodeResult it returned (exit_code, output, code_file), the list outputs
\* that was joined into output, the files it wrote and its transport calls; for
\* __exit__, exc_type is the exception it was passed ("" for None)
Ret(op, raised) ==
    [op |-> op, raised |-> raised, exc_type |-> "",
     exit_code |-> 0, output |-> <<>>, code_file |-> <<>>,
     outputs |-> <<>>, written |-> <<>>, calls |-> <<>>]

\* the defaults of the arguments of __init__
DefaultArgs == [timeout |-> 60, stop_vagrant |-> TRUE, execution_policies |-> EmptyDict]

Init ==
    /\ code_blocks \in Batches
    /\ proc = "init"
    /\ constructed = FALSE
    /\ args = DefaultArgs
    /\ timeout_f = 0
    /\ execution_policies = EmptyDict
    /\ work_dir_exists = FALSE
    /\ v_status = "absent"
    /\ up_calls = 0
    /\ destroy_calls = 0
    /\ atexit_hooks = {}
    /\ ret = Ret("", "")

----------------------------------------------------------------------------
(* Operations *)

\* self.execution_policies = self.DEFAULT_EXECUTION_POLICY.copy(), updated with the argument
MergedPolicies(overrides) == DictUpdate(DEFAULT_EXECUTION_POLICY, overrides)

\* the hooks registered by __init__: atexit.register(cleanup) is commented out
RegisteredAtInit(stop_vagrant) == {}

\* (mutant) the check of the timeout is off by one: 0 is accepted
TimeoutRejected_Negative(timeout) == timeout < 0

\* if timeout < 1: raise ValueError
TimeoutRejected(timeout) == timeout < 1

\* __init__(timeout, stop_vagrant, execution_policies)
Construct(timeout, stop_vagrant, policies, up_result) ==
    /\ proc = "init"
    /\ proc' = "live"
    /\ args' = [timeout |-> timeout, stop_vagrant |-> stop_vagrant,
                execution_policies |-> policies]
    /\ UNCHANGED <<code_blocks, destroy_calls>>
    /\ IF TimeoutRejected(timeout)
       THEN /\ ret' = Ret("__init__", "ValueError")
            /\ UNCHANGED <<constructed, timeout_f, execution_policies, work_dir_exists,
                           v_status, up_calls, atexit_hooks>>
       ELSE /\ work_dir_exists' = TRUE
            /\ up_calls' = up_calls + 1
            /\ IF up_result = "raise"
               THEN /\ v_status' = "not_running"
                    /\ ret' = Ret("__init__", "CalledProcessError")
                    /\ UNCHANGED <<constructed, timeout_f, execution_policies, atexit_hooks>>
               ELSE /\ v_status' = up_result
                    /\ atexit_hooks' = atexit_hooks \cup RegisteredAtInit(stop_vagrant)
                    /\ timeout_f' = timeout
                    /\ execution_policies' = MergedPolicies(policies)
                    /\ constructed' = TRUE
                    /\ ret' = Ret("__init__", "")

\* (mutant) the check of the empty batch is missing
EmptyBatch_Unchecked(blocks) == FALSE

\* if len(code_blocks) == 0: raise ValueError
EmptyBatch(blocks) == Len(blocks) = 0

\* (mutant) the file of the last block instead of the first
CodeFile_Last(files) == IF files # <<>> THEN files[Len(files)] ELSE <<>>

\* code_file = str(files[0]) if files else None
CodeFile(files) == IF files # <<>> THEN files[1] ELSE <<>>

\* execute_code_blocks(code_blocks)
ExecuteCodeBlocks ==
    /\ proc = "live"
    /\ constructed
    /\ IF EmptyBatch(code_blocks)
       THEN ret' = Ret("execute_code_blocks", "ValueError")
       ELSE \E remotes \in [1..Len(code_blocks) -> RemoteOutcomes(v_status)] :
              LET acc == ForLoop(LoopStart, 1, code_blocks, execution_policies,
                                 timeout_f, remotes)
              IN  ret' = IF acc.ctl = "raise"
                         THEN [Ret("execute_code_blocks", "NetworkError") EXCEPT
                                 !.written = acc.written, !.calls = acc.calls]
                         ELSE [op |-> "execute_code_blocks", raised |-> "",
                               exc_type |-> "",
                               exit_code |-> acc.last_exit_code,
                               output |-> Join(acc.outputs),
                               outputs |-> acc.outputs,
                               code_file |-> CodeFile(acc.files),
                               written |-> acc.written, calls |-> acc.calls]
    /\ UNCHANGED <<code_blocks, proc, constructed, args, timeout_f, execution_policies,
                   work_dir_exists, v_status, up_calls, destroy_calls, atexit_hooks>>

\* cleanup(): self._v.destroy(); atexit.unregister(cleanup)
Cleanup ==
    /\ destroy_calls' = destroy_calls + 1
    /\ v_status' = "destroyed"
    /\ atexit_hooks' = atexit_hooks \ {"cleanup"}

\* stop()
Stop ==
    /\ proc = "live"
    /\ constructed
    /\ destroy_calls < MaxStops
    /\ Cleanup
    /\ ret' = Ret("stop", "")
    /\ UNCHANGED <<code_blocks, proc, constructed, args, timeout_f, execution_policies,
                   work_dir_exists, up_calls>>

\* (mutant) restart() brings the machine up again
Restart_Up ==
    /\ proc = "live"
    /\ constructed
    /\ up_calls' = up_calls + 1
    /\ v_status' = "running"
    /\ ret' = Ret("restart", "")
    /\ UNCHANGED <<code_blocks, proc, constructed, args, timeout_f, execution_policies,
                   work_dir_exists, destroy_calls, atexit_hooks>>

\* restart(): its body is commented out
Restart ==
    /\ proc = "live"
    /\ constructed
    /\ ret' = Ret("restart", "")
    /\ UNCHANGED <<code_blocks, proc, constructed, args, timeout_f, execution_policies,
                   work_dir_exists, v_status, up_calls, destroy_calls, atexit_hooks>>

\* __enter__()
Enter ==
    /\ proc = "live"
    /\ constructed
    /\ ret' = Ret("__enter__", "")
    /\ UNCHANGED <<code_blocks, proc, constructed, args, timeout_f, execution_policies,
                   work_dir_exists, v_status, up_calls, destroy_calls, atexit_hooks>>

\* (mutant) __exit__ stops the executor only when the body raised nothing
Exit_SkipOnException ==
    /\ proc = "live"
    /\ constructed
    /\ destroy_calls < MaxStops
    /\ IF ret.raised = ""
       THEN Cleanup
       ELSE UNCHANGED <<destroy_calls, v_status, atexit_hooks>>
    /\ ret' = [Ret("__exit__", "") EXCEPT !.exc_type = ret.raised]
    /\ UNCHANGED <<code_blocks, proc, constructed, args, timeout_f, execution_policies,
                   work_dir_exists, up_calls>>

\* __exit__(exc_type, exc_val, exc_tb): self.stop().  It is passed the exception that
\* ended the body of the with statement: the one the latest call raised, if any
Exit ==
    /\ proc = "live"
    /\ constructed
    /\ destroy_calls < MaxStops
    /\ Cleanup
    /\ ret' = [Ret("__exit__", "") EXCEPT !.exc_type = ret.raised]
    /\ UNCHANGED <<code_blocks, proc, constructed, args, timeout_f, execution_policies,
                   work_dir_exists, up_calls>>

\* the process ends: atexit runs the hooks that are registered
ProcessExit ==
    /\ proc = "live"
    /\ proc' = "exited"
    /\ IF "cleanup" \in atexit_hooks
       THEN Cleanup
       ELSE UNCHANGED <<destroy_calls, v_status, atexit_hooks>>
    /\ ret' = Ret("exit", "")
    /\ UNCHANGED <<code_blocks, constructed, args, timeout_f, execution_policies,
                   work_dir_exists, up_calls>>

Next ==
    \/ \E t \in Timeouts, s \in BOOLEAN, p \in PolicyArgs, u \in UpResults :
          Construct(t, s, p, u)
    \/ ExecuteCodeBlocks
    \/ Stop
    \/ Restart
    \/ Enter
    \/ Exit
    \/ ProcessExit

Spec == Init /\ [][Next]_vars

----------------------------------------------------------------------------
(* What a call of execute_code_blocks is seen to have done *)

\* the latest call is execute_code_blocks on a batch that is not empty
BatchCall == ret.op = "execute_code_blocks" /\ code_blocks # <<>>

\* ... and it returned a CommandLineCodeResult
BatchReturned == BatchCall /\ ret.raised = ""

\* the canonical language of block i
Lang(i) == CanonicalLang(code_blocks[i].language)

\* the filename directive of block i leaves the working directory
Rejected(i) ==
    get_file_name_from_content(silence_pip(code_blocks[i].code, Lang(i))).raised

\* the transport calls made for block i, by kind
CallsOf(i, kind) ==
    {k \in DOMAIN ret.calls : ret.calls[k].block = i /\ ret.calls[k].kind = kind}

\* the files written for block i
WritesOf(i) == {k \in DOMAIN ret.written : ret.written[k].block = i}

\* nothing was written, uploaded or run for a block after block i
NothingAfter(i) ==
    /\ \A k \in DOMAIN ret.written : ret.written[k].block <= i
    /\ \A k \in DOMAIN ret.calls : ret.calls[k].block <= i

\* the message of a block that was persisted: the tail of its remote output when it
\* was run, "Code saved to <path>" when it was not
SavedMessage(i) ==
    <<"Code saved to ">> \o ret.written[CHOOSE k \in WritesOf(i) : TRUE].path \o <<"\n">>

RunMessage(i) ==
    Tail_n(ret.calls[CHOOSE k \in CallsOf(i, "run") : TRUE].stdout, OutputTail)

UnsupportedMessage(i) == <<"Unsupported language ">> \o Lang(i) \o <<"\n">>

\* call k is the remote command of a block whose upload succeeded, and it returned a
\* nonzero exit code
FailedRun(k) ==
    /\ ret.calls[k].kind = "run"
    /\ ret.calls[k].return_code # 0
    /\ \A u \in CallsOf(ret.calls[k].block, "put") : ret.calls[u].return_code = 0

----------------------------------------------------------------------------
(* Claims *)

\* C1: a block whose remote command returns a nonzero exit code ends the batch:
\* nothing is persisted, uploaded or run for a later block, and the output holds no
\* message of a later block.
C1_FailFastOnNonzeroExit ==
    BatchCall =>
        \A k \in DOMAIN ret.calls :
            FailedRun(k) =>
                /\ NothingAfter(ret.calls[k].block)
                /\ Len(ret.outputs) <= ret.calls[k].block

\* C2: the exit code returned is 0 only if every block that was run had the remote
\* exit code 0; it is nonzero whenever some remote command returned nonzero.
C2_ExitCodeReflectsRemote ==
    BatchReturned =>
        /\ ret.exit_code = 0 => \A k \in DOMAIN ret.calls : ~FailedRun(k)
        /\ (\E k \in DOMAIN ret.calls : FailedRun(k)) => ret.exit_code # 0

\* position i holds the first unsupported language of the batch and no earlier block
\* is stopped by its filename directive
FirstUnsupportedAt(i) ==
    /\ i \in DOMAIN code_blocks
    /\ Lang(i) \notin DOMAIN DEFAULT_EXECUTION_POLICY
    /\ \A j \in 1..(i - 1) :
          Lang(j) \in DOMAIN DEFAULT_EXECUTION_POLICY /\ ~Rejected(j)

\* C3: when the first unsupported language is at position i and the earlier blocks
\* were processed, the output is the messages of blocks 1..i in order, the last one
\* "Unsupported language", the exit code is 1, and nothing is written, uploaded or
\* run for block i or a later block.
C3_UnsupportedLanguageStops ==
    BatchReturned =>
        \A i \in DOMAIN code_blocks :
            FirstUnsupportedAt(i) =>
                /\ Len(ret.outputs) = i
                /\ ret.outputs[i] = UnsupportedMessage(i)
                /\ \A j \in 1..(i - 1) :
                      /\ WritesOf(j) # {}
                      /\ ret.outputs[j] =
                            IF CallsOf(j, "run") # {} THEN RunMessage(j) ELSE SavedMessage(j)
                /\ ret.output = Join(ret.outputs)
                /\ ret.exit_code = 1
                /\ NothingAfter(i - 1)

\* C3 witness: a batch that returned with an unsupported first block and a supported
\* second block
C3_Witness ==
    /\ BatchReturned
    /\ Len(code_blocks) = 2
    /\ FirstUnsupportedAt(1)
    /\ Lang(2) \in DOMAIN DEFAULT_EXECUTION_POLICY
    /\ ret.exit_code = 1

\* C4: teardown is idempotent: over any sequence of stop(), __exit__ and exit-hook
\* runs, destroy is issued at most once.
C4_DestroyAtMostOnce == destroy_calls <= 1

\* block i is recognized and its resolved policy is execute=false
SaveOnly(i) ==
    /\ Lang(i) \in DOMAIN DEFAULT_EXECUTION_POLICY
    /\ ~DictGet(execution_policies, Lang(i), FALSE)

\* what C5 says of a save-only block i: the file is written, "Code saved to <path>"
\* names it, there is no upload and no remote command for it, and the batch goes on
\* to the next block with the exit code as it was
SavedAndContinued(i) ==
    /\ WritesOf(i) # {}
    /\ i <= Len(ret.outputs)
    /\ ret.outputs[i] = SavedMessage(i)
    /\ CallsOf(i, "put") = {} /\ CallsOf(i, "run") = {}
    /\ i < Len(code_blocks) => Len(ret.outputs) >= i + 1
    /\ i = Len(code_blocks) => ret.exit_code = 0

\* C5 as stated: every block of a batch whose language is recognized and whose policy
\* is execute=false is written, reported as "Code saved to <path>", not uploaded and
\* not run, and the batch continues.
C5_Original ==
    BatchReturned =>
        \A i \in DOMAIN code_blocks : SaveOnly(i) => SavedAndContinued(i)

\* the loop reaches block i: no earlier block has an unsupported language or a
\* rejected filename directive
Reached(i) ==
    \A j \in 1..(i - 1) :
        Lang(j) \in DOMAIN DEFAULT_EXECUTION_POLICY /\ ~Rejected(j)

\* C5 (amended): in a call that returns, every save-only block that the loop reaches
\* and whose filename directive stays inside the working directory is written,
\* reported as "Code saved to <path>", not uploaded and not run, and the batch
\* continues with the exit code unchanged.
C5_SaveOnlyBlock ==
    BatchReturned =>
        \A i \in DOMAIN code_blocks :
            (SaveOnly(i) /\ Reached(i) /\ ~Rejected(i)) => SavedAndContinued(i)

\* C5 witness: a returned batch whose first block is save-only and accepted, followed
\* by a block that was run
C5_Witness ==
    /\ BatchReturned
    /\ Len(code_blocks) = 2
    /\ SaveOnly(1) /\ ~Rejected(1)
    /\ ret.outputs[1] = SavedMessage(1)
    /\ CallsOf(2, "run") # {}

\* shouldExecute of the reference: the override value when the override table has the
\* key, the default value otherwise
RefShouldExecute(lang, overrides) ==
    IF lang \in DOMAIN overrides THEN overrides[lang] ELSE DEFAULT_EXECUTION_POLICY[lang]

\* C6: a language is recognized iff its canonical name is a key of the default table,
\* whatever the override table holds, and a recognized language is executed iff the
\* override table says so, or, without an override, the default table does.
C6_PolicyResolution ==
    /\ constructed =>
          \A lang \in DOMAIN DEFAULT_EXECUTION_POLICY :
              DictGet(execution_policies, lang, FALSE)
                  = RefShouldExecute(lang, args.execution_policies)
    /\ BatchReturned =>
          \A i \in 1..Len(ret.outputs) :
              /\ (ret.outputs[i] = UnsupportedMessage(i))
                    <=> (Lang(i) \notin DOMAIN DEFAULT_EXECUTION_POLICY)
              /\ (Lang(i) \in DOMAIN DEFAULT_EXECUTION_POLICY /\ ~Rejected(i)) =>
                    ((CallsOf(i, "run") # {})
                        <=> RefShouldExecute(Lang(i), args.execution_policies))

\* C6 witness: under an override table that turns python off and names the unknown
\* language ruby, a python block was saved without being run and a ruby block was
\* reported unsupported
C6_Witness ==
    /\ BatchReturned
    /\ ruby \in DOMAIN args.execution_policies
    /\ args.execution_policies[python] = FALSE
    /\ Len(ret.outputs) = 2
    /\ Lang(1) = python /\ CallsOf(1, "run") = {} /\ WritesOf(1) # {}
    /\ Lang(2) = ruby /\ ret.outputs[2] = UnsupportedMessage(2)

\* C7: when the remote command of a block ends with the timeout sentinel 124, the
\* output of that block holds the timeout marker and the exit code returned is nonzero.
C7_TimeoutMarked ==
    BatchReturned =>
        \A k \in DOMAIN ret.calls :
            (ret.calls[k].kind = "run" /\ ret.calls[k].return_code = 124) =>
                /\ ret.exit_code # 0
                /\ LET out == ret.outputs[ret.calls[k].block]
                   IN  \E n \in DOMAIN out : out[n] = TIMEOUT_MSG[1]

\* C8: on a running machine, a failed upload of block i is reported in the result
\* with a nonzero exit code, ends the batch at block i (no remote command after the
\* failed upload), is not retried, and the call returns a result instead of raising.
C8_TransportFailureReported ==
    (BatchCall /\ v_status = "running") =>
        /\ ret.raised = ""
        /\ \A k \in DOMAIN ret.calls :
              (ret.calls[k].kind = "put" /\ ret.calls[k].return_code # 0) =>
                  /\ ret.exit_code # 0
                  /\ CallsOf(ret.calls[k].block, "run") = {}
                  /\ Cardinality(CallsOf(ret.calls[k].block, "put")) = 1
                  /\ NothingAfter(ret.calls[k].block)

\* C9: __init__ returns an executor only when the machine is running.
C9_ConstructedOnlyWhenRunning ==
    (ret.op = "__init__" /\ ret.raised = "") => v_status = "running"

\* C10: with stop_vagrant=True the exit hook is registered at construction, so that a
\* process that ends without stop() leaves the machine destroyed, and a stop()
\* followed by the end of the process issues no second destroy.
C10_DestroyedAtExit ==
    (constructed /\ args.stop_vagrant /\ proc = "exited")
        => (v_status = "destroyed" /\ destroy_calls = 1)

\* C11: leaving the with statement tears the machine down on every exit path: when
\* __exit__ has returned, after a body that ended normally or with an exception, the
\* machine is destroyed.
C11_ExitDestroys ==
    ret.op = "__exit__" =>
        /\ ret.raised = ""
        /\ v_status = "destroyed"
        /\ destroy_calls >= 1

\* C11 witness: __exit__ has returned after a batch in the body raised
C11_Witness ==
    /\ ret.op = "__exit__"
    /\ ret.exc_type = "NetworkError"
    /\ v_status = "destroyed"

\* an earlier block than i raises out of the call: the machine has no ssh coordinates
\* and the block is to be run
RaisesBefore(i) ==
    /\ v_status # "running"
    /\ \E j \in 1..(i - 1) : DictGet(execution_policies, Lang(j), FALSE)

\* C12: when the filename directive of block i is rejected because it leaves the
\* working directory, the call does not raise: the result holds an error message
\* for block i and a nonzero exit code, no file is written and no transport call is
\* made for block i, and no later block is processed.
C12_RejectedFilenameStops ==
    BatchCall =>
        \A i \in DOMAIN code_blocks :
            (Reached(i) /\ Lang(i) \in DOMAIN DEFAULT_EXECUTION_POLICY
                /\ Rejected(i) /\ ~RaisesBefore(i)) =>
                /\ ret.raised = ""
                /\ Len(ret.outputs) = i
                /\ ret.outputs[i] = <<"Filename is not in the workspace">>
                /\ ret.exit_code # 0
                /\ NothingAfter(i - 1)

\* C12 witness: a returned batch whose first block has a rejected filename directive
\* and is followed by another block
C12_Witness ==
    /\ BatchReturned
    /\ Len(code_blocks) = 2
    /\ Lang(1) \in DOMAIN DEFAULT_EXECUTION_POLICY /\ Rejected(1)
    /\ ~Rejected(2)
    /\ ret.exit_code = 1

\* C13: the code_file of the result is the path of the first block that was
\* persisted, also when the batch stopped at a later block, and it is empty (None)
\* exactly when no block was persisted.
C13_CodeFileIsFirstPersisted ==
    BatchReturned =>
        /\ (ret.code_file = <<>>) <=> (ret.written = <<>>)
        /\ \A k \in DOMAIN ret.written :
              (\A n \in DOMAIN ret.written : ret.written[k].block <= ret.written[n].block)
                  => ret.code_file = ret.written[k].path

\* C13 witness: a batch that persisted its first block and stopped at a later one
C13_Witness ==
    /\ BatchReturned
    /\ ret.exit_code = 1
    /\ WritesOf(1) # {}
    /\ ret.code_file = ret.written[1].path

\* C14: __init__ with timeout < 1 raises before any side effect: the working
\* directory is not created, up() is never called and no machine exists.
C14_BadTimeoutNoSideEffect ==
    (proc # "init" /\ args.timeout < 1) =>
        /\ ret.op = "__init__" => ret.raised = "ValueError"
        /\ ~constructed
        /\ ~work_dir_exists
        /\ up_calls = 0
        /\ v_status = "absent"

\* C14 witness: __init__(timeout=0) has raised
C14_Witness ==
    /\ ret.op = "__init__"
    /\ ret.raised = "ValueError"
    /\ args.timeout = 0
    /\ ~work_dir_exists

\* C15: execute_code_blocks on the empty batch raises with no partial effect: no
\* file is written, no transport call is made, and the policies, the timeout and the
\* machine are as before the call.
C15_EmptyBatchRejected ==
    [][ (ret'.op = "execute_code_blocks" /\ code_blocks = <<>>) =>
            /\ ret'.raised = "ValueError"
            /\ ret'.written = <<>> /\ ret'.calls = <<>>
            /\ UNCHANGED <<execution_policies, timeout_f, v_status, constructed,
                           work_dir_exists, up_calls, destroy_calls, atexit_hooks>>
      ]_vars

\* C15 witness: execute_code_blocks([]) has raised
C15_Witness ==
    /\ ret.op = "execute_code_blocks"
    /\ code_blocks = <<>>
    /\ ret.raised = "ValueError"

\* block i reaches the write of its file: the loop reaches it, its language is
\* supported, its filename is accepted and no earlier block raised out of the call
PersistStep(i) ==
    /\ Reached(i)
    /\ Lang(i) \in DOMAIN DEFAULT_EXECUTION_POLICY
    /\ ~Rejected(i)
    /\ ~RaisesBefore(i)

\* the files the call left in the working directory
FilesOfBatch == {ret.written[k].path : k \in DOMAIN ret.written}

\* C16 as stated: the set of files persisted by a batch holds exactly one file per
\* block that reached the write, also when two blocks carry the same code and
\* language or the same filename directive; later blocks contribute no file.
C16_Original ==
    BatchReturned =>
        Cardinality(FilesOfBatch)
            = Cardinality({i \in DOMAIN code_blocks : PersistStep(i)})

\* the filename the code resolves for block i
ResolvedName(i) ==
    LET code == silence_pip(code_blocks[i].code, Lang(i))
    IN  FileName(get_file_name_from_content(code).filename, code, Lang(i))

\* C16 (amended): every block that reaches the write is written exactly once and no
\* other block is written; the set of files holds one file per distinct resolved
\* filename, so that two blocks with the same code and language, or with the same
\* filename directive, share one file.
C16_OneWritePerBlock ==
    BatchCall =>
        /\ \A i \in DOMAIN code_blocks :
              Cardinality(WritesOf(i)) = IF PersistStep(i) THEN 1 ELSE 0
        /\ \A k, n \in DOMAIN ret.written :
              code_blocks[ret.written[k].block] = code_blocks[ret.written[n].block]
                  => ret.written[k].path = ret.written[n].path
        /\ Cardinality(FilesOfBatch)
              = Cardinality({ResolvedName(i) : i \in {j \in DOMAIN code_blocks : PersistStep(j)}})

\* C16 witness: a batch of two identical blocks, both written, to one file
C16_Witness ==
    /\ BatchReturned
    /\ Len(ret.written) = 2
    /\ code_blocks[1] = code_blocks[2]
    /\ Cardinality(FilesOfBatch) = 1


\* C17: the environment is brought up exactly once per executor, at construction:
\* the step that constructs the executor has called up() once, no later call
\* (execute_code_blocks, restart, stop, __exit__, process exit) calls up() again,
\* and a destroyed environment stays destroyed.
C17_UpOnceNeverRecreated ==
    [][ /\ (~constructed /\ constructed') => (up_calls = 0 /\ up_calls' = 1)
        /\ constructed => up_calls' = up_calls
        /\ v_status = "destroyed" => v_status' = "destroyed" ]_vars

\* C17 witness: restart() returned on an executor whose environment was destroyed,
\* and up() has still been called once
C17_Witness ==
    /\ ret.op = "restart"
    /\ v_status = "destroyed"
    /\ destroy_calls >= 1
    /\ up_calls = 1


\* block i of a returned batch was handled as the policy lookup of name n handles a
\* block: refused as unsupported when n is not a default language, otherwise written
\* (unless its filename directive is refused) and run exactly when the policy of n
\* is to execute
LookedUpAs(i, n) ==
    IF n \notin DOMAIN DEFAULT_EXECUTION_POLICY
    THEN /\ ret.outputs[i] = <<"Unsupported language ">> \o n \o <<"\n">>
         /\ WritesOf(i) = {}
    ELSE /\ ret.outputs[i] # <<"Unsupported language ">> \o n \o <<"\n">>
         /\ ret.outputs[i] # <<"Filename is not in the workspace">>
               => /\ WritesOf(i) # {}
                  /\ CallsOf(i, "run") # {} <=> DictGet(execution_policies, n, FALSE)

\* the canonical name as the claim computes it: alias first, lower case second
AliasThenLower(language) ==
    Lower(IF language \in DOMAIN LANGUAGE_ALIASES THEN LANGUAGE_ALIASES[language]
          ELSE language)

\* the canonical name computed lower case first, alias second
LowerThenAlias(language) ==
    LET low == Lower(language)
    IN  IF low \in DOMAIN LANGUAGE_ALIASES THEN LANGUAGE_ALIASES[low] ELSE low

\* C18 as stated: the canonical name used for the policy lookup of every block is
\* lowercase(alias(language)), also for upper-case spellings of an alias.
C18_Original ==
    BatchReturned =>
        \A i \in DOMAIN ret.outputs :
            LookedUpAs(i, AliasThenLower(code_blocks[i].language))

\* spellings named by the claim, with lower-case ones
Spellings ==
    {<<"P","Y">>, <<"J","s">>, <<"P","y","t","h","o","n">>, py, js, python, html, ruby}

\* C18 (amended): canonicalization lower-cases first and substitutes the alias
\* second: the canonical name used for the policy lookup is
\* alias(lowercase(language)), so that 'PY' is looked up as python, 'Js' as
\* javascript and 'Python' as python.
C18_LowerThenAlias ==
    /\ \A l \in Spellings : CanonicalLang(l) = LowerThenAlias(l)
    /\ LowerThenAlias(<<"P","Y">>) = python
    /\ LowerThenAlias(<<"J","s">>) = javascript
    /\ LowerThenAlias(<<"P","y","t","h","o","n">>) = python
    /\ BatchReturned =>
          \A i \in DOMAIN ret.outputs :
              LookedUpAs(i, LowerThenAlias(code_blocks[i].language))

\* C18 witness: a block whose language is spelled 'PY' was written and run
C18_Witness ==
    /\ BatchReturned
    /\ code_blocks[1].language = <<"P","Y">>
    /\ WritesOf(1) # {}
    /\ \E k \in CallsOf(1, "run") :
          ret.calls[k].arg = Command(timeout_f, python, FileName(<<>>, silence_pip(code_blocks[1].code, python), python))


\* C19: for every executed block of a returned batch, the text appended to the
\* result is exactly the last 200 characters of that block's remote output (all of
\* it when it is shorter): at most 200 characters, and a suffix of the remote output.
C19_OutputIsTail ==
    BatchReturned =>
        \A i \in DOMAIN ret.outputs :
            \A k \in CallsOf(i, "run") :
                LET out    == ret.outputs[i]
                    stdout == ret.calls[k].stdout
                    drop   == Len(stdout) - Len(out)
                IN  /\ Len(out) = IF Len(stdout) <= 200 THEN Len(stdout) ELSE 200
                    /\ \A n \in DOMAIN out : out[n] = stdout[drop + n]

\* C19 witness: a block whose remote output is longer than 200 characters was
\* executed and contributed 200 of them
C19_Witness ==
    /\ BatchReturned
    /\ \E i \in DOMAIN ret.outputs :
          \E k \in CallsOf(i, "run") :
              /\ Len(ret.calls[k].stdout) > 200
              /\ Len(ret.outputs[i]) = 200
              /\ ret.outputs[i][1] # ret.calls[k].stdout[1]


\* the positions, in the order of the side effects of the call, of the effects of
\* one kind made for block i
SeqOf(i, kind) ==
    IF kind = "write"
    THEN {ret.written[k].seq : k \in WritesOf(i)}
    ELSE {ret.calls[k].seq : k \in CallsOf(i, kind)}

\* the positions of all the effects made for block i
AllSeq(i) == SeqOf(i, "write") \cup SeqOf(i, "put") \cup SeqOf(i, "run")

\* the transport calls of one kind made by the call
CallsOfKind(kind) == {k \in DOMAIN ret.calls : ret.calls[k].kind = kind}

\* the blocks that reached the write and whose policy is to execute
ExecutedBlocks ==
    {i \in DOMAIN code_blocks :
        PersistStep(i) /\ DictGet(execution_policies, Lang(i), FALSE)}

\* per block: write, then upload, then remote command, each at most once; block by
\* block; every uploaded file was written earlier in the call
EffectsInOrder ==
    /\ \A i \in DOMAIN code_blocks :
          /\ Cardinality(SeqOf(i, "put")) <= 1
          /\ Cardinality(SeqOf(i, "run")) <= 1
          /\ SeqOf(i, "put") # {} => Cardinality(SeqOf(i, "write")) = 1
          /\ SeqOf(i, "run") # {} => Cardinality(SeqOf(i, "put")) = 1
          /\ \A w \in SeqOf(i, "write") : \A p \in SeqOf(i, "put") : w < p
          /\ \A p \in SeqOf(i, "put") : \A r \in SeqOf(i, "run") : p < r
    /\ \A i, j \in DOMAIN code_blocks :
          i < j => \A a \in AllSeq(i) : \A b \in AllSeq(j) : a < b
    /\ \A k \in CallsOfKind("put") :
          \E w \in DOMAIN ret.written :
              /\ ret.written[w].path = ret.calls[k].arg
              /\ ret.written[w].seq < ret.calls[k].seq

====
